---- MODULE Spec2Model ----
(***************************************************************************)
(* Employee Attrition dashboard (src/app.py): the filter-and-aggregate     *)
(* pipeline.  The script loads the dataset once, reads four sidebar        *)
(* widgets, filters the dataset with a boolean mask and derives the KPIs   *)
(* and per-chart aggregates from the filtered frame.  Every widget change  *)
(* re-runs the whole script.                                               *)
(*                                                                         *)
(* A DataFrame is a sequence of rows; a row is a record of its columns     *)
(* plus the pandas index label ("index").  A normalized count (a rate) is  *)
(* kept as the exact fraction [num, den] the division is taken of.         *)
(***************************************************************************)
EXTENDS Integers, Sequences, FiniteSets, TLC

(* ------------------------------ bounds -------------------------------- *)

\* longest dataset enumerated exhaustively over the sample rows
MaxRows == 2

\* st.dataframe(df_filtered.head(20))
PreviewRows == 20

(* ------------------------- the dataset (EA.csv) ------------------------ *)

Emp(d, g, a, m, y) ==
    [Department |-> d, Gender |-> g, Age |-> a, MonthlyIncome |-> m, Attrition |-> y]

\* sample rows of the CSV: both departments and genders, ages on and around
\* the bin edges 18, 25 and 70, two incomes, both Attrition values
Employees ==
    { Emp("Sales", "Male",   18, 1000, "Yes"),
      Emp("Sales", "Female", 25, 2000, "No"),
      Emp("HR",    "Male",   26, 2000, "No"),
      Emp("HR",    "Female", 71, 1000, "Yes"),
      Emp("Sales", "Male",   25, 1000, "No"),
      Emp("HR",    "Female", 26, 2000, "Yes") }

\* the positions a slider is moved to: a slider steps through the integers
\* between its ends, of which the ages and incomes of the sample rows and one
\* age no row has are taken
SliderStops == {18, 25, 26, 40, 71, 1000, 2000}

\* the positions of a slider built with the ends min_value and max_value
Positions(min_value, max_value) ==
    { v \in SliderStops : min_value <= v /\ v <= max_value }

\* pd.read_csv: the rows in file order under a RangeIndex 0..n-1
read_csv(rows) ==
    [i \in 1..Len(rows) |-> [index |-> i - 1] @@ rows[i]]

Repeat(r, n) == [i \in 1..n |-> r]

ShortFiles == UNION { [1..n -> Employees] : n \in 1..MaxRows }

\* files long enough for the 20-row preview to cut the filtered frame
LongFiles == { <<a>> \o Repeat(b, PreviewRows + 1) : a, b \in Employees }

Files == ShortFiles \cup LongFiles

(* ------------------------------ pandas -------------------------------- *)

Col(frame, c) == [i \in 1..Len(frame) |-> frame[i][c]]

Range(s) == { s[i] : i \in DOMAIN s }

\* Series.unique()
unique(s) == Range(s)

SetMin(S) == CHOOSE x \in S : \A y \in S : x <= y
SetMax(S) == CHOOSE x \in S : \A y \in S : y <= x

\* isin with the test negated (~mask)
isin_inverted(s, values) == [i \in DOMAIN s |-> s[i] \notin values]

\* isin where an empty selection is read as "no filter"
isin_or_all(s, values) == [i \in DOMAIN s |-> values = {} \/ s[i] \in values]

\* Series.isin(values)
isin(s, values) == [i \in DOMAIN s |-> s[i] \in values]

\* between with inclusive="left"
between_left(s, left, right) == [i \in DOMAIN s |-> left <= s[i] /\ s[i] < right]

\* Series.between(left, right), inclusive="both"
between(s, left, right) == [i \in DOMAIN s |-> left <= s[i] /\ s[i] <= right]

\* mask | mask
MaskOr(m1, m2) == [i \in DOMAIN m1 |-> m1[i] \/ m2[i]]

\* mask & mask
MaskAnd(m1, m2) == [i \in DOMAIN m1 |-> m1[i] /\ m2[i]]

\* frame[mask] with the selected rows in reverse order
BoolIndexReversed(frame, mask) ==
    LET F[k \in 0..Len(frame)] ==
            IF k = 0 THEN << >>
            ELSE IF mask[k] THEN << frame[k] >> \o F[k - 1] ELSE F[k - 1]
    IN  F[Len(frame)]

\* frame[mask]: the rows whose mask entry is True, in frame order, each
\* keeping its index label
BoolIndex(frame, mask) ==
    LET F[k \in 0..Len(frame)] ==
            IF k = 0 THEN << >>
            ELSE IF mask[k] THEN Append(F[k - 1], frame[k]) ELSE F[k - 1]
    IN  F[Len(frame)]

\* DataFrame.head(n)
head(frame, n) == SubSeq(frame, 1, IF Len(frame) < n THEN Len(frame) ELSE n)

Count(s, v) == Cardinality({ i \in DOMAIN s : s[i] = v })

\* Series.value_counts(normalize=True): one entry per value that occurs
value_counts(s) ==
    [v \in Range(s) |-> [num |-> Count(s, v), den |-> Len(s)]]

\* groupby(by)["Attrition"].value_counts(normalize=True).rename("Rate")
\* .reset_index(): one row per (group, Attrition value) that occurs, Rate the
\* share of the value within its group.  The rows are kept as a set: their
\* order plays no part in what is derived from them.
GroupValueCounts(frame, by) ==
    LET grp(g) == SelectSeq(frame, LAMBDA r : r[by] = g)
        rows(g) == LET vc == value_counts(Col(grp(g), "Attrition")) IN
                   { (by :> g) @@ [Attrition |-> a, Rate |-> vc[a]] : a \in DOMAIN vc }
    IN  UNION { rows(g) : g \in unique(Col(frame, by)) }

\* an interval (left, right] of pd.cut; NaN is the missing value
Interval(l, r) == [left |-> l, right |-> r]
NaN == [left |-> 0, right |-> 0]

\* pd.cut with right=False: bins [left, right)
cut_right_open(s, b) ==
    [i \in DOMAIN s |->
        LET K == { k \in 1..(Len(b) - 1) : b[k] <= s[i] /\ s[i] < b[k + 1] } IN
        IF K = {} THEN NaN
        ELSE LET k == CHOOSE k \in K : TRUE IN Interval(b[k], b[k + 1])]

\* pd.cut with include_lowest=True: the first bin takes its left edge
cut_include_lowest(s, b) ==
    [i \in DOMAIN s |->
        LET K == { k \in 1..(Len(b) - 1) :
                     /\ b[k] < s[i] \/ (k = 1 /\ b[k] = s[i])
                     /\ s[i] <= b[k + 1] } IN
        IF K = {} THEN NaN
        ELSE LET k == CHOOSE k \in K : TRUE IN Interval(b[k], b[k + 1])]

\* pd.cut(s, bins): right=True, include_lowest=False
cut(s, b) ==
    [i \in DOMAIN s |->
        LET K == { k \in 1..(Len(b) - 1) : b[k] < s[i] /\ s[i] <= b[k + 1] } IN
        IF K = {} THEN NaN
        ELSE LET k == CHOOSE k \in K : TRUE IN Interval(b[k], b[k + 1])]

\* pd.crosstab(index, columns, normalize='index'): rows with a missing key
\* are dropped, only the keys that occur get a row or a column, and every
\* row is divided by its total
crosstab(idx, cols) ==
    LET kept == { i \in DOMAIN idx : idx[i] # NaN }
        n(r, c) == Cardinality({ i \in kept : idx[i] = r /\ cols[i] = c })
        tot(r) == Cardinality({ i \in kept : idx[i] = r })
    IN  [r \in { idx[i] : i \in kept } |->
            [c \in { cols[i] : i \in kept } |-> [num |-> n(r, c), den |-> tot(r)]]]

\* the integer 0 given as default to Series.get
Zero == [num |-> 0, den |-> 1]

\* Series.get(key, default)
get(m, key, default) == IF key \in DOMAIN m THEN m[key] ELSE default

(* --------------------------- the script ------------------------------- *)

VARIABLES df, departments, genders, age_range, income_range,
          df_filtered, total_employees, attrition_rate, preview,
          group, age_bins, age_attr, gender_attr

vars == << df, departments, genders, age_range, income_range,
           df_filtered, total_employees, attrition_rate, preview,
           group, age_bins, age_attr, gender_attr >>

\* pd.cut(..., bins=[18, 25, 35, 45, 55, 70])
bins == << 18, 25, 35, 45, 55, 70 >>

\* a run that filters the frame the run before it left behind
load_data_stale == df_filtered

\* df = load_data(): st.cache_data hands every run the frame read at the first
load_data == df

age_min(frame) == SetMin(Range(Col(frame, "Age")))
age_max(frame) == SetMax(Range(Col(frame, "Age")))
income_min(frame) == SetMin(Range(Col(frame, "MonthlyIncome")))
income_max(frame) == SetMax(Range(Col(frame, "MonthlyIncome")))

\* Filter Data
FilterData(frame, deps, gens, ar, ir) ==
    BoolIndex(frame,
        MaskAnd(MaskAnd(MaskAnd(isin(Col(frame, "Department"), deps),
                                isin(Col(frame, "Gender"), gens)),
                        between(Col(frame, "Age"), ar[1], ar[2])),
                between(Col(frame, "MonthlyIncome"), ir[1], ir[2])))

\* the rate as the plain quotient count("Yes") / len(frame)
AttritionRateQuotient(frame) ==
    [num |-> Count(Col(frame, "Attrition"), "Yes"), den |-> Len(frame)]

\* KPI: attrition rate
AttritionRate(frame) == get(value_counts(Col(frame, "Attrition")), "Yes", Zero)

\* chart 4 (by = "Department") and chart 13 (by = "Gender")
RateByCategory(frame, by) ==
    { row \in GroupValueCounts(frame, by) : row.Attrition = "Yes" }

\* chart 5
AgeBins(frame) == cut(Col(frame, "Age"), bins)
AgeAttr(frame) == crosstab(AgeBins(frame), Col(frame, "Attrition"))

\* everything the script derives from the filtered frame
Derive(filtered) ==
    /\ df_filtered' = filtered
    /\ total_employees' = Len(filtered)
    /\ attrition_rate' = AttritionRate(filtered)
    /\ preview' = head(filtered, PreviewRows)
    /\ group' = RateByCategory(filtered, "Department")
    /\ age_bins' = AgeBins(filtered)
    /\ age_attr' = AgeAttr(filtered)
    /\ gender_attr' = RateByCategory(filtered, "Gender")

\* one run of the script from the filter down, on the widget values given
Script(frame, deps, gens, ar, ir) ==
    Derive(FilterData(frame, deps, gens, ar, ir))

Init ==
    /\ df \in { read_csv(f) : f \in Files }
    /\ departments = unique(Col(df, "Department"))
    /\ genders = unique(Col(df, "Gender"))
    /\ age_range = << age_min(df), age_max(df) >>
    /\ income_range = << income_min(df), income_max(df) >>
    /\ df_filtered = FilterData(df, departments, genders, age_range, income_range)
    /\ total_employees = Len(df_filtered)
    /\ attrition_rate = AttritionRate(df_filtered)
    /\ preview = head(df_filtered, PreviewRows)
    /\ group = RateByCategory(df_filtered, "Department")
    /\ age_bins = AgeBins(df_filtered)
    /\ age_attr = AgeAttr(df_filtered)
    /\ gender_attr = RateByCategory(df_filtered, "Gender")

\* st.sidebar.multiselect("Department", ...)
SelectDepartments ==
    \E sel \in SUBSET unique(Col(df, "Department")) :
        /\ sel # departments
        /\ departments' = sel
        /\ UNCHANGED << df, genders, age_range, income_range >>
        /\ Script(load_data, sel, genders, age_range, income_range)

\* st.sidebar.multiselect("Gender", ...)
SelectGenders ==
    \E sel \in SUBSET unique(Col(df, "Gender")) :
        /\ sel # genders
        /\ genders' = sel
        /\ UNCHANGED << df, departments, age_range, income_range >>
        /\ Script(load_data, departments, sel, age_range, income_range)

\* st.sidebar.slider("Age Range", age_min, age_max, ...)
SlideAge ==
    \E lo, hi \in Positions(age_min(df), age_max(df)) :
        /\ lo <= hi
        /\ << lo, hi >> # age_range
        /\ age_range' = << lo, hi >>
        /\ UNCHANGED << df, departments, genders, income_range >>
        /\ Script(load_data, departments, genders, << lo, hi >>, income_range)

\* st.sidebar.slider("Monthly Income Range", income_min, income_max, ...)
SlideIncome ==
    \E lo, hi \in Positions(income_min(df), income_max(df)) :
        /\ lo <= hi
        /\ << lo, hi >> # income_range
        /\ income_range' = << lo, hi >>
        /\ UNCHANGED << df, departments, genders, age_range >>
        /\ Script(load_data, departments, genders, age_range, << lo, hi >>)

\* a re-run with the widgets as they are
Rerun ==
    /\ UNCHANGED << df, departments, genders, age_range, income_range >>
    /\ Script(load_data, departments, genders, age_range, income_range)

Next ==
    \/ SelectDepartments
    \/ SelectGenders
    \/ SlideAge
    \/ SlideIncome
    \/ Rerun

Spec == Init /\ [][Next]_vars

(* ----------------------------- properties ----------------------------- *)

\* the four predicates of the current criteria, stated on one row
Matches(r) ==
    /\ r.Department \in departments
    /\ r.Gender \in genders
    /\ age_range[1] <= r.Age /\ r.Age <= age_range[2]
    /\ income_range[1] <= r.MonthlyIncome /\ r.MonthlyIncome <= income_range[2]

\* the criteria the widgets start with
DefaultCriteria ==
    /\ departments = { df[i].Department : i \in DOMAIN df }
    /\ genders = { df[i].Gender : i \in DOMAIN df }
    /\ \A i \in DOMAIN df :
        /\ age_range[1] <= df[i].Age /\ df[i].Age <= age_range[2]
        /\ income_range[1] <= df[i].MonthlyIncome
        /\ df[i].MonthlyIncome <= income_range[2]
    /\ \E i, j \in DOMAIN df : age_range = << df[i].Age, df[j].Age >>
    /\ \E i, j \in DOMAIN df :
        income_range = << df[i].MonthlyIncome, df[j].MonthlyIncome >>

YesRows(frame) == { k \in DOMAIN frame : frame[k].Attrition = "Yes" }

\* C1: every row of the filtered view is a row of the dataset and satisfies
\* all four predicates of the current criteria, both range ends inclusive.
C1_FilteredViewSound ==
    \A k \in DOMAIN df_filtered :
        /\ \E i \in DOMAIN df : df[i] = df_filtered[k]
        /\ Matches(df_filtered[k])

\* C1 witness: all four criteria have been narrowed, rows were dropped and
\* rows remain, one of them on an end of the age range.
C1_Witness ==
    /\ departments # { df[i].Department : i \in DOMAIN df }
    /\ genders # { df[i].Gender : i \in DOMAIN df }
    /\ \E i \in DOMAIN df : df[i].Age < age_range[1] \/ df[i].Age > age_range[2]
    /\ \E i \in DOMAIN df :
        df[i].MonthlyIncome < income_range[1] \/ df[i].MonthlyIncome > income_range[2]
    /\ Len(df_filtered) >= 1
    /\ Len(df_filtered) < Len(df)
    /\ \E k \in DOMAIN df_filtered : df_filtered[k].Age = age_range[2]

\* C2: under the default criteria the filtered view is the whole dataset.
C2_DefaultKeepsAll ==
    DefaultCriteria => df_filtered = df

\* C2 witness: the default criteria on a dataset with several ages and
\* incomes, so that rows sit on both ends of both ranges.
C2_Witness ==
    /\ DefaultCriteria
    /\ Len(df) >= 2
    /\ age_range[1] < age_range[2]
    /\ income_range[1] < income_range[2]
    /\ Cardinality(departments) = 2
    /\ Len(df_filtered) = Len(df)

IsSubFrame(f, g) == \A k \in DOMAIN f : \E j \in DOMAIN g : g[j] = f[k]

\* the criteria wider than the current ones in one field, the others fixed
WiderCriteria ==
    LET opts(c) == { df[i][c] : i \in DOMAIN df } IN
         { << d, genders, age_range, income_range >> :
              d \in { x \in SUBSET opts("Department") : departments \subseteq x } }
    \cup { << departments, g, age_range, income_range >> :
              g \in { x \in SUBSET opts("Gender") : genders \subseteq x } }
    \cup { << departments, genders, a, income_range >> :
              a \in { x \in SliderStops \X SliderStops :
                        x[1] <= age_range[1] /\ age_range[2] <= x[2] } }
    \cup { << departments, genders, age_range, m >> :
              m \in { x \in SliderStops \X SliderStops :
                        x[1] <= income_range[1] /\ income_range[2] <= x[2] } }

\* C3: widening one criterion, the others fixed, keeps every row of the view.
C3_Monotone ==
    \A c \in WiderCriteria :
        IsSubFrame(df_filtered, FilterData(df, c[1], c[2], c[3], c[4]))

\* C3 witness: rows are shown, and a wider age range shows more of them.
C3_Witness ==
    /\ Len(df_filtered) >= 1
    /\ \E c \in WiderCriteria :
        /\ c[3] # age_range
        /\ c[1] = departments /\ c[2] = genders /\ c[4] = income_range
        /\ Len(FilterData(df, c[1], c[2], c[3], c[4])) > Len(df_filtered)

\* C4: the view shown is the one the current criteria select from the
\* dataset, whatever criteria came before.
C4_ViewOfCurrentCriteria ==
    df_filtered = SelectSeq(df, Matches)

\* C4 witness: two criteria differ from their defaults (so at least two
\* changes came before), some rows are shown and some are not.
C4_Witness ==
    /\ genders # { df[i].Gender : i \in DOMAIN df }
    /\ age_range # << age_min(df), age_max(df) >>
    /\ Len(df_filtered) >= 1
    /\ Len(df_filtered) < Len(df)

\* C5: with no department selected the view is empty and both rate-by-
\* category aggregates are empty.
C5_NoDepartment ==
    departments = {} =>
        /\ Len(df_filtered) = 0
        /\ total_employees = 0
        /\ group = {}
        /\ gender_attr = {}

\* C5 witness: no department selected while the other three criteria still
\* admit every row.
C5_Witness ==
    /\ departments = {}
    /\ genders = { df[i].Gender : i \in DOMAIN df }
    /\ age_range = << age_min(df), age_max(df) >>
    /\ income_range = << income_min(df), income_max(df) >>
    /\ Len(df) >= 2
    /\ group = {}

\* C6: the KPI attrition rate is always a defined number; it is 0 when the
\* view is empty or holds no "Yes", and count("Yes") / count(view) otherwise.
C6_KpiRate ==
    LET yes == Cardinality(YesRows(df_filtered)) IN
    /\ attrition_rate.den > 0
    /\ yes = 0 => attrition_rate.num = 0
    /\ yes > 0 =>
        attrition_rate.num * Len(df_filtered) = yes * attrition_rate.den

\* C6 witness: an empty view, whose rate is 0.
C6_Witness ==
    /\ Len(df_filtered) = 0
    /\ attrition_rate.num = 0
    /\ attrition_rate.den > 0

\* the rows of a frame whose column c is v
RowsWith(frame, c, v) == { k \in DOMAIN frame : frame[k][c] = v }

RateReported(agg, frame, c) ==
    /\ \A v \in { frame[k][c] : k \in DOMAIN frame } :
        \E row \in agg :
            /\ row[c] = v
            /\ row.Rate.den > 0
            /\ row.Rate.num * Cardinality(RowsWith(frame, c, v))
                 = Cardinality(RowsWith(frame, c, v) \cap YesRows(frame)) * row.Rate.den
    /\ \A row \in agg : \E k \in DOMAIN frame : frame[k][c] = row[c]

\* C7: rate-by-category has, for every Department (Gender) that occurs in
\* the view, an entry with the share of "Yes" among its rows, 0 included,
\* and no entry for a value that does not occur.
C7_RateForEveryValue ==
    /\ RateReported(group, df_filtered, "Department")
    /\ RateReported(gender_attr, df_filtered, "Gender")

BinOf(j) == [left |-> bins[j], right |-> bins[j + 1]]

\* the number of rows the cross-tabulation counts in a bin
Counted(b) ==
    IF b \notin DOMAIN age_attr THEN 0
    ELSE (IF "Yes" \in DOMAIN age_attr[b] THEN age_attr[b]["Yes"].num ELSE 0)
       + (IF "No" \in DOMAIN age_attr[b] THEN age_attr[b]["No"].num ELSE 0)

\* C8: a row of age a is put in the bin (lo, hi] exactly when lo < a <= hi,
\* and each bin counts exactly those rows.
C8_BinsRightInclusive ==
    \A j \in 1..(Len(bins) - 1) :
        /\ \A k \in DOMAIN df_filtered :
            age_bins[k] = BinOf(j) <=>
                (bins[j] < df_filtered[k].Age /\ df_filtered[k].Age <= bins[j + 1])
        /\ Counted(BinOf(j)) =
            Cardinality({ k \in DOMAIN df_filtered :
                bins[j] < df_filtered[k].Age /\ df_filtered[k].Age <= bins[j + 1] })

\* C8 witness: a row aged 25, a bin edge, counted in (18, 25] and not in
\* (25, 35], next to a row aged 26 in (25, 35].
C8_Witness ==
    /\ \E k \in DOMAIN df_filtered :
        df_filtered[k].Age = 25 /\ age_bins[k] = [left |-> 18, right |-> 25]
    /\ \E k \in DOMAIN df_filtered :
        df_filtered[k].Age = 26 /\ age_bins[k] = [left |-> 25, right |-> 35]
    /\ Counted([left |-> 18, right |-> 25]) = 1
    /\ Counted([left |-> 25, right |-> 35]) = 1

\* the rows the age bins hold
InBins == { k \in DOMAIN df_filtered :
              bins[1] < df_filtered[k].Age /\ df_filtered[k].Age <= bins[Len(bins)] }

\* C9: every dataset row that satisfies the criteria is in the view exactly
\* once, the view keeps the dataset order, and the preview is the first 20
\* matching rows in that order.
C9_CompleteInOrder ==
    /\ \A i \in DOMAIN df :
        Matches(df[i]) =>
            Cardinality({ k \in DOMAIN df_filtered : df_filtered[k] = df[i] }) = 1
    /\ \A k, l \in DOMAIN df_filtered :
        k < l => df_filtered[k].index < df_filtered[l].index
    /\ Len(preview) =
        (IF total_employees < PreviewRows THEN total_employees ELSE PreviewRows)
    /\ \A k \in DOMAIN preview :
        /\ Matches(preview[k])
        /\ Cardinality({ i \in DOMAIN df :
              Matches(df[i]) /\ df[i].index < preview[k].index }) = k - 1

\* C9 witness: more than 20 rows match while an earlier row does not, so the
\* preview is cut and starts after the dropped row.
C9_Witness ==
    /\ Len(df_filtered) > PreviewRows
    /\ Len(preview) = PreviewRows
    /\ ~ Matches(df[1])
    /\ preview[1] = df[2]

\* C10: the age cross-tabulation counts exactly the rows with 18 < Age <= 70;
\* a row aged 18 or outside (18, 70] is in no bin.
C10_BinsLeaveRowsOut ==
    /\ \A k \in DOMAIN df_filtered : k \notin InBins <=> age_bins[k] = NaN
    /\ Counted(BinOf(1)) + Counted(BinOf(2)) + Counted(BinOf(3))
         + Counted(BinOf(4)) + Counted(BinOf(5)) = Cardinality(InBins)
    /\ \A b \in DOMAIN age_attr : \E j \in 1..(Len(bins) - 1) : b = BinOf(j)

\* C10 witness: a row aged 18 and a row aged 71 are shown and binned nowhere,
\* so the bins count fewer rows than the Total Employees KPI.
C10_Witness ==
    /\ \E k \in DOMAIN df_filtered : df_filtered[k].Age = 18 /\ age_bins[k] = NaN
    /\ \E k \in DOMAIN df_filtered : df_filtered[k].Age = 71 /\ age_bins[k] = NaN
    /\ Cardinality(InBins) < total_employees

====
